---- MODULE Spec2Model ----
(***************************************************************************)
(* AQI Analytics API (src/backend/app.py): three GET handlers over one     *)
(* DynamoDB table.  Each handler is an `async def` without an await, so it *)
(* runs to completion on the event loop: one action per handler.           *)
(*                                                                         *)
(* Numbers are fixed-point integers in thousandths (2.675 is 2675), so a   *)
(* value rounded to two decimals is a multiple of 10.  Strings that the    *)
(* code compares or parses are sequences of code points ("a" is <<97>>).   *)
(***************************************************************************)
EXTENDS Integers, Sequences, FiniteSets, TLC

\* Bounds of the model.
MaxDataRecords == 3
MaxStatsRecords == 4
MaxNegLimit == 2
MaxLimit == 3

\* `limit: int = 50`
DefaultLimit == 50
\* The status of a response built from the dict a handler returns.
HttpOk == 200

VARIABLES
    table,  \* the items of the DynamoDB table, in scan order
    req,    \* the request handled last
    scan,   \* how that request's table.scan() ended
    ops,    \* the table operations that request issued
    resp    \* the HTTP response it was given

vars == <<table, req, scan, ops, resp>>

----------------------------------------------------------------------------
\* Attribute values of an item.

Absent == [kind |-> "absent", s |-> <<>>, v |-> 0]
Str(s) == [kind |-> "str", s |-> s, v |-> 0]
Num(v) == [kind |-> "num", s |-> <<>>, v |-> v]

Item(ts, rn) == [timestamp |-> ts, random_number |-> rn]

RECURSIVE SeqsUpTo(_, _)
SeqsUpTo(S, n) ==
    IF n = 0 THEN {<<>>}
    ELSE LET shorter == SeqsUpTo(S, n - 1)
         IN  shorter \cup {Append(q, x) : q \in {p \in shorter : Len(p) = n - 1}, x \in S}

Min2(a, b) == IF a < b THEN a ELSE b
Max2(a, b) == IF a > b THEN a ELSE b

----------------------------------------------------------------------------
\* table.scan(): the one call the handlers make on the table.

NoScan == [raised |-> FALSE, message |-> "", called |-> FALSE]
ScanOk == [raised |-> FALSE, message |-> "", called |-> TRUE]
ScanFailed(m) == [raised |-> TRUE, message |-> m, called |-> TRUE]

\* str(e) of the exceptions a scan can raise: botocore's errors carry a
\* message, an exception built without arguments (MemoryError()) has none.
ScanErrorMessages == {"", "An error occurred (ThrottlingException) when calling the Scan operation"}
ScanOutcomes == {ScanOk} \cup {ScanFailed(m) : m \in ScanErrorMessages}

table_scan_twice(tbl, outcome) ==
    [ops |-> IF outcome.raised THEN <<"scan", "scan">> ELSE <<"scan">>,
     raised |-> outcome.raised, message |-> outcome.message,
     Items |-> tbl, table |-> tbl]

table_scan(tbl, outcome) ==
    [ops |-> <<"scan">>, raised |-> outcome.raised, message |-> outcome.message,
     Items |-> tbl, table |-> tbl]

----------------------------------------------------------------------------
\* Envelopes.

ErrorEnvelope(m) == [status |-> "error", message |-> m]

Returned(body) == [http |-> HttpOk, body |-> body]

\* `except Exception as e: return {"status": "error", "message": str(e)}`
except_Exception_propagates(m) == [http |-> 500, body |-> [detail |-> "Internal Server Error"]]

except_Exception(m) == Returned(ErrorEnvelope(m))

----------------------------------------------------------------------------
\* get_data: sort by timestamp, newest first, and keep the first `limit`.

\* x.get('timestamp', '')
TimestampKey(x) == IF x.timestamp.kind = "absent" THEN Str(<<>>) ELSE x.timestamp

\* str < str: by code point, a proper prefix first.
RECURSIVE LexLess(_, _)
LexLess(a, b) ==
    IF b = <<>> THEN FALSE
    ELSE IF a = <<>> THEN TRUE
    ELSE IF Head(a) # Head(b) THEN Head(a) < Head(b)
    ELSE LexLess(Tail(a), Tail(b))

\* k1 < k2 for two keys of one type.
KeyLess(k1, k2) ==
    IF k1.kind = "str" THEN LexLess(k1.s, k2.s) ELSE k1.v < k2.v

\* list.sort compares keys with <, which raises TypeError between a str and
\* a number; a list of fewer than two items is never compared.
SortRaises(items) ==
    \E i, j \in 1..Len(items) : TimestampKey(items[i]).kind # TimestampKey(items[j]).kind

SortTypeError == "'<' not supported between instances of 'str' and 'decimal.Decimal'"

\* One step of a stable descending sort: x goes after every item whose key
\* is not less than its own.
InsertDesc(sorted, x) ==
    LET p == Cardinality({i \in 1..Len(sorted) :
                            ~KeyLess(TimestampKey(sorted[i]), TimestampKey(x))})
    IN  SubSeq(sorted, 1, p) \o <<x>> \o SubSeq(sorted, p + 1, Len(sorted))

RECURSIVE SortDesc(_)
SortDesc(items) ==
    IF items = <<>> THEN <<>>
    ELSE InsertDesc(SortDesc(SubSeq(items, 1, Len(items) - 1)), items[Len(items)])

sort_skipped(items) == items

\* items.sort(key=lambda x: x.get('timestamp', ''), reverse=True)
sort_by_timestamp(items) == SortDesc(items)

slice_clamped(items, limit) ==
    SubSeq(items, 1, Min2(Max2(limit, 0), Len(items)))

slice_off_by_one(items, limit) ==
    IF limit >= 0 THEN SubSeq(items, 1, Min2(limit + 1, Len(items)))
    ELSE SubSeq(items, 1, Max2(Len(items) + limit, 0))

\* items[:limit]
slice(items, limit) ==
    IF limit >= 0 THEN SubSeq(items, 1, Min2(limit, Len(items)))
    ELSE SubSeq(items, 1, Max2(Len(items) + limit, 0))

DataEnvelope(items) == [status |-> "success", count |-> Len(items), data |-> items]

get_data_writes_back(tbl, outcome, limit) ==
    LET s == table_scan(tbl, outcome)
        base == [table |-> s.table, ops |-> s.ops, resp |-> except_Exception(s.message)]
    IN  IF s.raised THEN base
        ELSE IF SortRaises(s.Items)
        THEN [base EXCEPT !.resp = except_Exception(SortTypeError)]
        ELSE [base EXCEPT !.table = sort_by_timestamp(s.Items),
                          !.ops = s.ops \o <<"put_item">>,
                          !.resp = Returned(DataEnvelope(slice(sort_by_timestamp(s.Items), limit)))]

get_data(tbl, outcome, limit) ==
    LET s == table_scan(tbl, outcome)
        base == [table |-> s.table, ops |-> s.ops, resp |-> except_Exception(s.message)]
    IN  IF s.raised THEN base
        ELSE IF SortRaises(s.Items)
        THEN [base EXCEPT !.resp = except_Exception(SortTypeError)]
        ELSE [base EXCEPT !.resp = Returned(DataEnvelope(slice(sort_by_timestamp(s.Items), limit)))]

----------------------------------------------------------------------------
\* get_stats: descriptive statistics of random_number over the scanned items.

IsDigit(c) == c \in 48..57

RECURSIVE DigitsValue(_)
DigitsValue(ds) ==
    IF ds = <<>> THEN 0
    ELSE DigitsValue(SubSeq(ds, 1, Len(ds) - 1)) * 10 + (ds[Len(ds)] - 48)

\* float(str) on decimal literals "ddd", "ddd.ddd", "ddd." and ".ddd" (up to
\* three fractional digits); any other text raises ValueError.
ParseFloat(s) ==
    LET dots == {i \in 1..Len(s) : s[i] = 46}
        digits == {i \in 1..Len(s) : IsDigit(s[i])}
        d == IF dots = {} THEN Len(s) + 1 ELSE CHOOSE i \in dots : TRUE
        whole == SubSeq(s, 1, d - 1)
        frac == SubSeq(SubSeq(s, d + 1, Len(s)) \o <<48, 48, 48>>, 1, 3)
    IN  IF digits \cup dots = 1..Len(s) /\ Cardinality(dots) <= 1 /\ digits # {}
        THEN [raised |-> FALSE, v |-> DigitsValue(whole) * 1000 + DigitsValue(frac)]
        ELSE [raised |-> TRUE, v |-> 0]

ValueErrorMessage == "could not convert string to float"
ZeroDivisionMessage == "division by zero"

\* float(item.get('random_number', 0))
random_number(item) ==
    IF item.random_number.kind = "absent" THEN [raised |-> FALSE, v |-> 0]
    ELSE IF item.random_number.kind = "num" THEN [raised |-> FALSE, v |-> item.random_number.v]
    ELSE ParseFloat(item.random_number.s)

InsertAsc(sorted, x) ==
    LET p == Cardinality({i \in 1..Len(sorted) : sorted[i] <= x})
    IN  SubSeq(sorted, 1, p) \o <<x>> \o SubSeq(sorted, p + 1, Len(sorted))

RECURSIVE SortAsc(_)
SortAsc(values) ==
    IF values = <<>> THEN <<>>
    ELSE InsertAsc(SortAsc(SubSeq(values, 1, Len(values) - 1)), values[Len(values)])

values_sort_skipped(values) == values

\* values.sort()
values_sort(values) == SortAsc(values)

RECURSIVE Sum(_)
Sum(values) == IF values = <<>> THEN 0 ELSE Head(values) + Sum(Tail(values))

Abs(x) == IF x < 0 THEN -x ELSE x

\* round(num / den, 2): the multiples of 0.01 nearest to num / den.  At an
\* exact decimal tie the binary float lies on either side, so both
\* neighbours are possible results.
Round2(num, den) ==
    LET q == num \div (10 * den)
    IN  {10 * r : r \in {c \in {q, q + 1} : Abs(10 * c * den - num) <= 5 * den}}

\* round(x, 2) as the handler applies it to mean, median, p25 and p75.
round(num, den) == Round2(num, den)

\* int(total * 0.25), int(total * 0.75): a 0-based index.
PercentileIndex(total, pct) == (total * pct) \div 100

\* round((sum((x - mean) ** 2 for x in values) / total) ** 0.5, 2): with
\* S = sum(values) and n = total the variance is sum((n*x - S)^2) / n^3, and
\* 0.01 * r is a nearest multiple iff (10r - 5)^2 <= variance <= (10r + 5)^2.
StdDev2(values) ==
    LET n == Len(values)
        S == Sum(values)
        Q == Sum([i \in 1..n |-> (n * values[i] - S) * (n * values[i] - S)])
        top == (values[n] - values[1]) \div 20 + 1
    IN  {10 * r : r \in {c \in 0..top :
            /\ (c = 0 \/ 25 * (2 * c - 1) * (2 * c - 1) * n * n * n <= Q)
            /\ Q <= 25 * (2 * c + 1) * (2 * c + 1) * n * n * n}}

\* Lines 95-113 on the sorted values: the possible `stats` dicts.
StatsEnvelopes(values) ==
    LET total == Len(values)
        half == total \div 2
        medianNum == IF total % 2 = 1 THEN values[half + 1]
                     ELSE values[half] + values[half + 1]
        medianDen == IF total % 2 = 1 THEN 1 ELSE 2
    IN  {[status |-> "success", total_records |-> total,
          min |-> values[1], max |-> values[total],
          mean |-> mean, median |-> median, p25 |-> p25, p75 |-> p75,
          std_dev |-> sd] :
            mean \in round(Sum(values), total),
            median \in round(medianNum, medianDen),
            p25 \in round(values[PercentileIndex(total, 25) + 1], 1),
            p75 \in round(values[PercentileIndex(total, 75) + 1], 1),
            sd \in StdDev2(values)}

EmptyStatsEnvelope == [status |-> "success", total_records |-> 0, message |-> "No data available"]

not_items_never(items) == FALSE

\* `if not items:`
not_items(items) == items = <<>>

get_stats(tbl, outcome) ==
    LET s == table_scan(tbl, outcome)
        base == [table |-> s.table, ops |-> s.ops, resp |-> except_Exception(s.message)]
        floats == [i \in 1..Len(s.Items) |-> random_number(s.Items[i])]
        values == values_sort([i \in 1..Len(floats) |-> floats[i].v])
    IN  IF s.raised THEN {base}
        ELSE IF not_items(s.Items)
        THEN {[base EXCEPT !.resp = Returned(EmptyStatsEnvelope)]}
        ELSE IF \E i \in 1..Len(floats) : floats[i].raised
        THEN {[base EXCEPT !.resp = except_Exception(ValueErrorMessage)]}
        ELSE IF Len(values) = 0
        THEN {[base EXCEPT !.resp = except_Exception(ZeroDivisionMessage)]}
        ELSE {[base EXCEPT !.resp = Returned(body)] : body \in StatsEnvelopes(values)}

\* health
health(tbl) == [table |-> tbl, ops |-> <<>>, resp |-> Returned([status |-> "ok"])]

----------------------------------------------------------------------------
\* The tables the model starts from, and the requests.

Timestamps == {Absent, Str(<<>>), Str(<<97>>), Str(<<97, 98>>), Num(7000)}
\* One item shares its timestamp with another and differs in random_number.
DataItems == {Item(ts, Absent) : ts \in Timestamps} \cup {Item(Str(<<97>>), Num(1000))}

RandomNumbers ==
    {Absent, Num(1000), Num(2000), Num(3000), Num(4000),
     Str(<<53>>), Str(<<50, 46, 54, 55, 53>>), Str(<<97, 98, 99>>)}
StatsItems == {Item(Absent, rn) : rn \in RandomNumbers}

Limits == (-MaxNegLimit..MaxLimit) \cup {DefaultLimit}

Request(op, limit) == [op |-> op, limit |-> limit]

Idle ==
    /\ req = Request("none", 0)
    /\ scan = NoScan
    /\ ops = <<>>
    /\ resp = [http |-> 0, body |-> [status |-> "none"]]

Init == table \in SeqsUpTo(DataItems, MaxDataRecords) /\ Idle

InitStats == table \in SeqsUpTo(StatsItems, MaxStatsRecords) /\ Idle

Health ==
    LET e == health(table)
    IN  /\ table' = e.table
        /\ req' = Request("health", 0)
        /\ scan' = NoScan
        /\ ops' = e.ops
        /\ resp' = e.resp

GetData(limit, outcome) ==
    LET e == get_data(table, outcome, limit)
    IN  /\ table' = e.table
        /\ req' = Request("get_data", limit)
        /\ scan' = outcome
        /\ ops' = e.ops
        /\ resp' = e.resp

GetStats(outcome) ==
    \E e \in get_stats(table, outcome) :
        /\ table' = e.table
        /\ req' = Request("get_stats", 0)
        /\ scan' = outcome
        /\ ops' = e.ops
        /\ resp' = e.resp

Next ==
    \/ Health
    \/ \E limit \in Limits, outcome \in ScanOutcomes : GetData(limit, outcome)
    \/ \E outcome \in ScanOutcomes : GetStats(outcome)

NextStats ==
    \/ Health
    \/ \E outcome \in ScanOutcomes : GetStats(outcome)

Spec == Init /\ [][Next]_vars

SpecStats == InitStats /\ [][NextStats]_vars

----------------------------------------------------------------------------
\* Vocabulary of the properties.

Range(f) == {f[i] : i \in DOMAIN f}
Count(q, x) == Cardinality({i \in 1..Len(q) : q[i] = x})

Succeeded(op) ==
    req.op = op /\ resp.http = HttpOk /\ resp.body.status = "success"

ScanReturned(op) == req.op = op /\ scan.called /\ ~scan.raised

\* q holds only items of tbl, none more often than tbl does.
SubBag(q, tbl) == \A x \in Range(q) : Count(q, x) <= Count(tbl, x)

\* Timestamps never increase along q.
Descending(q) ==
    \A i, j \in 1..Len(q) :
        i < j => ~KeyLess(TimestampKey(q[i]), TimestampKey(q[j]))

\* No item of tbl left out of q has a strictly greater timestamp than an
\* item of q.
NewestKept(q, tbl) ==
    \A x \in Range(tbl) :
        Count(tbl, x) > Count(q, x) =>
            \A i \in 1..Len(q) : ~KeyLess(TimestampKey(q[i]), TimestampKey(x))

StringTimestamps(tbl) ==
    \A i \in 1..Len(tbl) : tbl[i].timestamp.kind \in {"str", "absent"}

----------------------------------------------------------------------------
\* C1: a successful get_data(L) with L >= 0 over the scanned records R
\* returns exactly min(L, len(R)) records and count = len(data); L = 0 gives
\* data = [] and count = 0, and L >= len(R) gives every record.
C1_LimitLength ==
    (Succeeded("get_data") /\ req.limit >= 0) =>
        /\ Len(resp.body.data) = Min2(req.limit, Len(table))
        /\ resp.body.count = Len(resp.body.data)
        /\ SubBag(resp.body.data, table)
        /\ (req.limit = 0 => resp.body.data = <<>> /\ resp.body.count = 0)
        /\ (req.limit >= Len(table) =>
                \A x \in Range(table) : Count(resp.body.data, x) = Count(table, x))

C1_Witness ==
    /\ Succeeded("get_data")
    /\ req.limit = 2
    /\ Len(table) = 3
    /\ resp.body.count = 2

\* C2: over records whose timestamps are strings or absent, get_data returns
\* its data in non-increasing lexicographic order of timestamp, an absent
\* timestamp counting as "" and so coming after every non-empty one, and
\* the records left out are never newer than a record returned.
C2_NewestFirst ==
    (ScanReturned("get_data") /\ StringTimestamps(table)) =>
        /\ Succeeded("get_data")
        /\ SubBag(resp.body.data, table)
        /\ \A i, j \in 1..Len(resp.body.data) :
                i < j =>
                    LET a == resp.body.data[i].timestamp
                        b == resp.body.data[j].timestamp
                    IN  /\ ~LexLess(a.s, b.s)
                        /\ (a.kind = "absent" => b.s = <<>>)
        /\ NewestKept(resp.body.data, table)

C2_Witness ==
    /\ Succeeded("get_data")
    /\ Len(table) = 3
    /\ table[1].timestamp.kind = "absent"
    /\ table[2].timestamp = Str(<<97>>)
    /\ table[3].timestamp = Str(<<97, 98>>)
    /\ resp.body.data = <<table[3], table[2]>>

\* C3 as stated: a failed scan in get_data or get_stats is answered with
\* HTTP 200 and exactly {status: "error", message: m}, m a non-empty string.
C3_NonEmptyMessage ==
    (req.op \in {"get_data", "get_stats"} /\ scan.raised) =>
        /\ resp.http = HttpOk
        /\ DOMAIN resp.body = {"status", "message"}
        /\ resp.body.status = "error"
        /\ resp.body.message # ""

\* C3 as amended: a failed scan in get_data or get_stats is answered with
\* HTTP 200 and exactly {status: "error", message: str(e)}, the text of the
\* error raised, whatever that text is; never a 5xx or a success envelope.
C3_ErrorEnvelope ==
    (req.op \in {"get_data", "get_stats"} /\ scan.raised) =>
        /\ resp.http = HttpOk
        /\ DOMAIN resp.body = {"status", "message"}
        /\ resp.body.status = "error"
        /\ resp.body.message = scan.message

C3_Witness ==
    /\ req.op = "get_stats"
    /\ scan.raised
    /\ scan.message # ""
    /\ resp.http = HttpOk
    /\ resp.body.status = "error"

\* C4: no request changes the table, and scan is the only table operation
\* a request issues; sorting and truncating in get_data touch only the
\* request's own list.
C4_ReadOnly ==
    [][table' = table /\ \A i \in 1..Len(ops') : ops'[i] = "scan"]_vars

C4_Witness ==
    /\ Succeeded("get_data")
    /\ ops = <<"scan">>
    /\ Len(table) = 3
    /\ Len(resp.body.data) = 2
    /\ resp.body.data[1] = table[3]

----------------------------------------------------------------------------
\* C5 to C8 are about get_stats.

IsNumeric(item) ==
    \/ item.random_number.kind = "num"
    \/ item.random_number.kind = "str" /\ ~ParseFloat(item.random_number.s).raised

NumericValue(item) ==
    IF item.random_number.kind = "num" THEN item.random_number.v
    ELSE IF item.random_number.kind = "str" /\ ~ParseFloat(item.random_number.s).raised
    THEN ParseFloat(item.random_number.s).v
    ELSE 0

TableValues == [i \in 1..Len(table) |-> NumericValue(table[i])]

\* The element at 0-based index k of the ascending order of vals.
Kth(vals, k) ==
    CHOOSE v \in Range(vals) :
        /\ Cardinality({i \in 1..Len(vals) : vals[i] < v}) <= k
        /\ Cardinality({i \in 1..Len(vals) : vals[i] <= v}) > k

\* C5: over n > 0 records with numeric random_number, get_stats succeeds
\* with total_records = n, min and max the smallest and largest value, the
\* median the middle element (n odd) or the mean of the two middle elements
\* (n even), p25 and p75 the elements at indices floor(n * 0.25) and
\* floor(n * 0.75) of the ascending order, both within 0..n-1; [1,2,3,4]
\* gives mean 2.5, median 2.5, p25 2 and p75 4.
C5_Statistics ==
    (ScanReturned("get_stats") /\ table # <<>> /\ \A i \in 1..Len(table) : IsNumeric(table[i])) =>
        LET n == Len(table)
            vals == TableValues
            i25 == (n * 25) \div 100
            i75 == (n * 75) \div 100
        IN  /\ Succeeded("get_stats")
            /\ resp.body.total_records = n
            /\ \A i \in 1..n : resp.body.min <= vals[i] /\ vals[i] <= resp.body.max
            /\ resp.body.min \in Range(vals)
            /\ resp.body.max \in Range(vals)
            /\ resp.body.median \in
                    (IF n % 2 = 1 THEN Round2(Kth(vals, n \div 2), 1)
                     ELSE Round2(Kth(vals, n \div 2 - 1) + Kth(vals, n \div 2), 2))
            /\ {i25, i75} \subseteq 0..(n - 1)
            /\ resp.body.p25 \in Round2(Kth(vals, i25), 1)
            /\ resp.body.p75 \in Round2(Kth(vals, i75), 1)
            /\ (Range(vals) = {1000, 2000, 3000, 4000} /\ n = 4 =>
                    /\ resp.body.mean = 2500
                    /\ resp.body.median = 2500
                    /\ resp.body.p25 = 2000
                    /\ resp.body.p75 = 4000)

C5_Witness ==
    /\ Succeeded("get_stats")
    /\ TableValues = <<4000, 1000, 3000, 2000>>
    /\ resp.body.p25 = 2000
    /\ resp.body.p75 = 4000
    /\ resp.body.median = 2500

\* C6: a record whose random_number is missing or not numeric is no error:
\* it counts as 0.0 in the aggregates, and get_stats succeeds with
\* total_records the number of scanned records.
C6_MalformedCoerced ==
    (ScanReturned("get_stats") /\ table # <<>>) =>
        /\ Succeeded("get_stats")
        /\ resp.body.total_records = Len(table)
        /\ resp.body.min = Kth(TableValues, 0)
        /\ resp.body.max = Kth(TableValues, Len(table) - 1)

\* C7: every number of a get_stats success over a non-empty record set (min,
\* max, mean, median, p25, p75, std_dev) is rounded to 2 decimal places, and
\* for a single record min, max, mean, median, p25 and p75 are equal and
\* std_dev is 0.
C7_AllRounded ==
    (Succeeded("get_stats") /\ table # <<>>) =>
        /\ \A x \in {resp.body.min, resp.body.max, resp.body.mean, resp.body.median,
                     resp.body.p25, resp.body.p75, resp.body.std_dev} : x % 10 = 0
        /\ (Len(table) = 1 =>
                /\ {resp.body.max, resp.body.mean, resp.body.median,
                    resp.body.p25, resp.body.p75} = {resp.body.min}
                /\ resp.body.std_dev = 0)

\* C8: over an empty record set get_stats returns a success envelope with
\* total_records = 0 and a message and none of the numeric fields; nothing
\* is divided by the count and nothing is indexed.
C8_EmptyStats ==
    (ScanReturned("get_stats") /\ table = <<>>) =>
        /\ resp.http = HttpOk
        /\ DOMAIN resp.body = {"status", "total_records", "message"}
        /\ resp.body.status = "success"
        /\ resp.body.total_records = 0
        /\ resp.body.message # ""

C8_Witness ==
    /\ ScanReturned("get_stats")
    /\ table = <<>>
    /\ resp.body.status = "success"
    /\ resp.body.total_records = 0

----------------------------------------------------------------------------
\* C9: nothing is retried.  A get_data or get_stats request issues exactly
\* one scan and health none; a failed scan is answered at once with the
\* error envelope; and the request after a failure runs its own single scan
\* and succeeds or fails on its own input alone.
C9_OneScan ==
    /\ (req.op \in {"get_data", "get_stats"} => scan.called /\ ops = <<"scan">>)
    /\ (req.op = "health" => ~scan.called /\ ops = <<>>)
    /\ (scan.raised => resp.body.status = "error")

C9_Afresh ==
    (scan.raised /\ scan'.called /\ ~scan'.raised) =>
        /\ ops' = <<"scan">>
        /\ (resp'.body.status = "success"
                <=> ~(req'.op = "get_data" /\ SortRaises(table')))

\* C9: both parts, in every state and over every step.
C9_NoRetry == []C9_OneScan /\ [][C9_Afresh]_vars

C9_Witness ==
    /\ req.op = "get_data"
    /\ scan.raised
    /\ ops = <<"scan">>
    /\ resp.body.status = "error"

\* C10: for a negative limit -k, get_data succeeds with the newest-first
\* order less its last k records, count = max(0, len(R) - k): a negative
\* limit is neither an error nor a zero.
C10_NegativeLimit ==
    (ScanReturned("get_data") /\ req.limit < 0 /\ ~SortRaises(table)) =>
        /\ Succeeded("get_data")
        /\ resp.body.count = Max2(0, Len(table) + req.limit)
        /\ Len(resp.body.data) = resp.body.count
        /\ SubBag(resp.body.data, table)
        /\ Descending(resp.body.data)
        /\ NewestKept(resp.body.data, table)

C10_Witness ==
    /\ Succeeded("get_data")
    /\ req.limit = -1
    /\ Len(table) = 3
    /\ resp.body.count = 2

====
